---- MODULE Spec2Model ----
(***************************************************************************)
(* Generator-based cooperative coroutines of src/3-generators.js.          *)
(*                                                                         *)
(* The generator bodies of the file (genFunc, objectEntries, the co        *)
(* callback, foo, bar, BinaryTree's iterator, dataConsumer, g) are         *)
(* modelled as state machines keyed by the suspension point at which the   *)
(* instance is parked.  The engine that drives them is the generator       *)
(* protocol of the host language: next, throw, return, yield and the       *)
(* delegating yield.  The operations are                                   *)
(* named here as in the specification: create, resume, throwInto, close.   *)
(*                                                                         *)
(* Values: undefined is <<>>, a string s is <<s>>, the array [k, v] is     *)
(* <<k, v>>.  A console.log line is a sequence of strings.                 *)
(***************************************************************************)
EXTENDS Integers, Sequences, FiniteSets, TLC

VARIABLES insts, last, arr

vars == <<insts, last, arr>>

\* ---------------------------------------------------------------- bounds

\* instances the caller creates
MaxInst == 1

\* The number of instances of one definition alive side by side.
MaxPair == 2

\* ---------------------------------------------------------------- values

Undefined == <<>>

Absent == <<"<absent>">>

NoError == "none"

Str(v) == IF v = Undefined THEN "undefined" ELSE v[1]

\* The values a caller passes to next(): nothing, 'a', 'b' (dataConsumer)
\* and the pair of JSON texts the co callback waits for.
Inputs == { Undefined, <<"a">>, <<"b">>, <<"{}", "{}">> }

\* The errors a caller injects.
Errors == { "Rejected" }

\* ---------------------------------------------------------------- outcomes of a body step

Yield(val, pc, idx, log) ==
  [kind |-> "yield", value |-> val, pc |-> pc, idx |-> idx, log |-> log,
   ddef |-> "", darg |-> 0]

Delegate(ddef, darg, pc, log) ==
  [kind |-> "delegate", value |-> Undefined, pc |-> pc, idx |-> 0, log |-> log,
   ddef |-> ddef, darg |-> darg]

Return(val, log) ==
  [kind |-> "return", value |-> val, pc |-> 0, idx |-> 0, log |-> log,
   ddef |-> "", darg |-> 0]

Throw(err, log) ==
  [kind |-> "throw", value |-> <<err>>, pc |-> 0, idx |-> 0, log |-> log,
   ddef |-> "", darg |-> 0]

\* What a suspension point that no try statement encloses does with an
\* injected throw or return: the body is left at once.
Abrupt(mode, v) == IF mode = "throw" THEN Throw(v[1], <<>>) ELSE Return(v, <<>>)

\* ---------------------------------------------------------------- the bodies

\* genFunc running past its yield.
genFuncSkipsYield(arg, pc, idx, mode, v) ==
  IF mode # "next" THEN Abrupt(mode, v)
  ELSE Return(Undefined, << <<"First">>, <<"Second">> >>)

\* function* genFunc() { console.log('First'); yield; console.log('Second'); }
genFunc(arg, pc, idx, mode, v) ==
  IF mode # "next" THEN Abrupt(mode, v)
  ELSE IF pc = 0 THEN Yield(Undefined, 1, 0, << <<"First">> >>)
  ELSE Return(Undefined, << <<"Second">> >>)

\* jane = {first: 'Jane', last: 'Doe'}, an object with no own keys, and a
\* value that is no object (Reflect.ownKeys throws a TypeError on it).
IsObject(obj) == obj \in {1, 2}

OwnKeys(obj) == IF obj = 1 THEN <<"first", "last">> ELSE <<>>

Get(obj, key) == IF key = "first" THEN "Jane" ELSE "Doe"

\* objectEntries walking the key list from its end.
objectEntriesReversed(arg, pc, idx, mode, v) ==
  IF mode # "next" THEN Abrupt(mode, v)
  ELSE IF pc = 0 /\ ~IsObject(arg) THEN Throw("TypeError", <<>>)
  ELSE LET propKeys == OwnKeys(arg)
           k == idx + 1
       IN IF k <= Len(propKeys)
          THEN Yield(<<propKeys[Len(propKeys) + 1 - k],
                       Get(arg, propKeys[Len(propKeys) + 1 - k])>>, 1, k, <<>>)
          ELSE Return(Undefined, <<>>)

\* objectEntries taking a value that is no object for an empty object.
objectEntriesLenient(arg, pc, idx, mode, v) ==
  IF mode # "next" THEN Abrupt(mode, v)
  ELSE LET propKeys == OwnKeys(arg)
           k == idx + 1
       IN IF k <= Len(propKeys)
          THEN Yield(<<propKeys[k], Get(arg, propKeys[k])>>, 1, k, <<>>)
          ELSE Return(Undefined, <<>>)

\* function* objectEntries(obj): one yield of [propKey, obj[propKey]] per key
objectEntries(arg, pc, idx, mode, v) ==
  IF mode # "next" THEN Abrupt(mode, v)
  ELSE IF pc = 0 /\ ~IsObject(arg) THEN Throw("TypeError", <<>>)
  ELSE LET propKeys == OwnKeys(arg)
           k == idx + 1
       IN IF k <= Len(propKeys)
          THEN Yield(<<propKeys[k], Get(arg, propKeys[k])>>, 1, k, <<>>)
          ELSE Return(Undefined, <<>>)

\* JSON.parse accepts a JSON text and throws on anything else.
ValidJson(s) == s = "{}"

\* let [croftStr, bondStr] = <v>; JSON.parse(croftStr); JSON.parse(bondStr):
\* a TypeError on undefined (not iterable), a SyntaxError on a text that is
\* not JSON; both are raised inside the try block.
CanParse(v) == Len(v) = 2 /\ ValidJson(v[1]) /\ ValidJson(v[2])

\* The co callback without its try statement.
coCallbackNoTry(arg, pc, idx, mode, v) ==
  IF pc = 0 THEN
    IF mode = "next" THEN Yield(<<"Promise">>, 1, 0, <<>>) ELSE Abrupt(mode, v)
  ELSE IF mode # "next" THEN Abrupt(mode, v)
  ELSE IF CanParse(v) THEN Return(Undefined, << <<v[1]>>, <<v[2]>> >>)
  ELSE IF v = Undefined THEN Throw("TypeError", <<>>)
  ELSE Throw("SyntaxError", <<>>)

\* co(function* () { try { ... = yield Promise.all(...); ... } catch (e) {...} })
coCallback(arg, pc, idx, mode, v) ==
  IF pc = 0 THEN
    IF mode = "next" THEN Yield(<<"Promise">>, 1, 0, <<>>) ELSE Abrupt(mode, v)
  ELSE IF mode = "return" THEN Return(v, <<>>)
  ELSE IF mode = "throw" THEN Return(Undefined, << <<"Failure to read: ", v[1]>> >>)
  ELSE IF CanParse(v) THEN Return(Undefined, << <<v[1]>>, <<v[2]>> >>)
  ELSE IF v = Undefined THEN Return(Undefined, << <<"Failure to read: ", "TypeError">> >>)
  ELSE Return(Undefined, << <<"Failure to read: ", "SyntaxError">> >>)

\* foo without its second yield.
fooShort(arg, pc, idx, mode, v) ==
  IF mode # "next" THEN Abrupt(mode, v)
  ELSE IF pc = 0 THEN Yield(<<"a">>, 1, 0, <<>>)
  ELSE Return(Undefined, <<>>)

\* function* foo() { yield 'a'; yield 'b'; }
foo(arg, pc, idx, mode, v) ==
  IF mode # "next" THEN Abrupt(mode, v)
  ELSE IF pc = 0 THEN Yield(<<"a">>, 1, 0, <<>>)
  ELSE IF pc = 1 THEN Yield(<<"b">>, 2, 0, <<>>)
  ELSE Return(Undefined, <<>>)

\* bar with the delegation and the last yield swapped.
barSwapped(arg, pc, idx, mode, v) ==
  IF mode # "next" THEN Abrupt(mode, v)
  ELSE IF pc = 0 THEN Yield(<<"x">>, 1, 0, <<>>)
  ELSE IF pc = 1 THEN Yield(<<"y">>, 3, 0, <<>>)
  ELSE IF pc = 3 THEN Delegate("foo", 0, 2, <<>>)
  ELSE Return(Undefined, <<>>)

\* bar going on to its next yield when a return is injected into it.
barIgnoresReturn(arg, pc, idx, mode, v) ==
  IF mode = "throw" THEN Abrupt(mode, v)
  ELSE IF pc = 0 THEN Yield(<<"x">>, 1, 0, <<>>)
  ELSE IF pc = 1 THEN Delegate("foo", 0, 2, <<>>)
  ELSE IF pc = 2 THEN Yield(<<"y">>, 3, 0, <<>>)
  ELSE Return(Undefined, <<>>)

\* function* bar() { yield 'x'; yield* foo(); yield 'y'; }
\* pc 2 is the yield* expression: the body is re-entered there with the
\* result of the inner generator.
bar(arg, pc, idx, mode, v) ==
  IF mode # "next" THEN Abrupt(mode, v)
  ELSE IF pc = 0 THEN Yield(<<"x">>, 1, 0, <<>>)
  ELSE IF pc = 1 THEN Delegate("foo", 0, 2, <<>>)
  ELSE IF pc = 2 THEN Yield(<<"y">>, 3, 0, <<>>)
  ELSE Return(Undefined, <<>>)

\* tree = a(b(c, d), e); 0 is null.
NodeValue(n) == <<"a", "b", "c", "d", "e">>[n]

NodeLeft(n) == <<2, 3, 0, 0, 0>>[n]

NodeRight(n) == <<5, 4, 0, 0, 0>>[n]

\* An iteration that visits the right subtree before the left one.
BinaryTreeRightFirst(arg, pc, idx, mode, v) ==
  IF mode # "next" THEN Abrupt(mode, v)
  ELSE IF pc = 0 THEN Yield(<<NodeValue(arg)>>, 1, 0, <<>>)
  ELSE IF pc = 1 /\ NodeRight(arg) # 0 THEN Delegate("BinaryTree", NodeRight(arg), 2, <<>>)
  ELSE IF pc \in {1, 2} /\ NodeLeft(arg) # 0 THEN Delegate("BinaryTree", NodeLeft(arg), 3, <<>>)
  ELSE Return(Undefined, <<>>)

\* *[Symbol.iterator]() { yield this.value; yield* this.left; yield* this.right; }
\* pc 2 is the first yield*, pc 3 the second.
BinaryTree(arg, pc, idx, mode, v) ==
  IF mode # "next" THEN Abrupt(mode, v)
  ELSE IF pc = 0 THEN Yield(<<NodeValue(arg)>>, 1, 0, <<>>)
  ELSE IF pc = 1 /\ NodeLeft(arg) # 0 THEN Delegate("BinaryTree", NodeLeft(arg), 2, <<>>)
  ELSE IF pc \in {1, 2} /\ NodeRight(arg) # 0 THEN Delegate("BinaryTree", NodeRight(arg), 3, <<>>)
  ELSE Return(Undefined, <<>>)

\* function* genFunc() { for (let x of ['a', 'b']) { yield x; } }
genFuncLoop(arg, pc, idx, mode, v) ==
  IF mode # "next" THEN Abrupt(mode, v)
  ELSE IF idx < 2 THEN Yield(<< <<"a", "b">>[idx + 1] >>, 1, idx + 1, <<>>)
  ELSE Return(Undefined, <<>>)

\* dataConsumer reading the value sent to the first yield only.
dataConsumerDropsInput(arg, pc, idx, mode, v) ==
  IF mode # "next" THEN Abrupt(mode, v)
  ELSE IF pc = 0 THEN Yield(Undefined, 1, 0, << <<"Started">> >>)
  ELSE IF pc = 1 THEN Yield(Undefined, 2, 0, << <<"1. ", Str(v)>> >>)
  ELSE Return(<<"result">>, << <<"2. ", "undefined">> >>)

\* function* dataConsumer(): logs 'Started', then what each yield receives
dataConsumer(arg, pc, idx, mode, v) ==
  IF mode # "next" THEN Abrupt(mode, v)
  ELSE IF pc = 0 THEN Yield(Undefined, 1, 0, << <<"Started">> >>)
  ELSE IF pc = 1 THEN Yield(Undefined, 2, 0, << <<"1. ", Str(v)>> >>)
  ELSE Return(<<"result">>, << <<"2. ", Str(v)>> >>)

\* function* g() { yield }
g(arg, pc, idx, mode, v) ==
  IF mode # "next" THEN Abrupt(mode, v)
  ELSE IF pc = 0 THEN Yield(Undefined, 1, 0, <<>>)
  ELSE Return(Undefined, <<>>)

Defs ==
  { "genFunc", "objectEntries", "coCallback", "foo", "bar", "BinaryTree",
    "genFuncLoop", "dataConsumer", "g" }

\* A parser that lets a yield inside an arrow function through.
ParsesAll(def) == TRUE

\* function* genFunc() { ['a', 'b'].forEach(x => yield x); } is a SyntaxError:
\* the arrow function is no generator, so the declaration does not parse.
Parses(def) == def # "genFuncCallback"

\* The generator declarations of the file.
Declarations == Defs \cup { "genFuncCallback" }

\* The declarations that exist once the file is parsed.
Creatable == { def \in Declarations : Parses(def) }

\* The arguments the file calls a definition with.
Args(def) ==
  IF def = "objectEntries" THEN {1, 2, 3}
  ELSE IF def = "BinaryTree" THEN {1}
  ELSE {0}

Body(def, arg, pc, idx, mode, v) ==
  CASE def = "genFunc" -> genFunc(arg, pc, idx, mode, v)
    [] def = "objectEntries" -> objectEntries(arg, pc, idx, mode, v)
    [] def = "coCallback" -> coCallback(arg, pc, idx, mode, v)
    [] def = "foo" -> foo(arg, pc, idx, mode, v)
    [] def = "bar" -> bar(arg, pc, idx, mode, v)
    [] def = "BinaryTree" -> BinaryTree(arg, pc, idx, mode, v)
    [] def = "genFuncLoop" -> genFuncLoop(arg, pc, idx, mode, v)
    [] def = "dataConsumer" -> dataConsumer(arg, pc, idx, mode, v)
    [] OTHER -> g(arg, pc, idx, mode, v)

\* ---------------------------------------------------------------- instances

States == { "SUSPENDED_START", "SUSPENDED_YIELD", "RUNNING", "COMPLETED" }

\* A new instance that has already run to the first yield of its body.
NewInstanceStarted(def, arg, parent) ==
  [def |-> def, arg |-> arg, parent |-> parent,
   state |-> "SUSPENDED_YIELD", pc |-> 1, idx |-> 0, delegate |-> 0,
   lastYieldedValue |-> Undefined, returnValue |-> Absent, pendingError |-> NoError,
   log |-> << <<"First">> >>, yielded |-> << Undefined >>,
   resumes |-> 0, onlyResume |-> TRUE]

\* let genObj = genFunc(): a new instance, parked before the first statement
\* of the body.  parent is the instance whose yield* created it; 0 for an
\* instance the caller keeps a handle of, -1 for the iterator of a spread,
\* which nothing refers to afterwards.
NewInstance(def, arg, parent) ==
  [def |-> def, arg |-> arg, parent |-> parent,
   state |-> "SUSPENDED_START", pc |-> 0, idx |-> 0, delegate |-> 0,
   lastYieldedValue |-> Absent, returnValue |-> Absent, pendingError |-> NoError,
   log |-> <<>>, yielded |-> <<>>,
   resumes |-> 0, onlyResume |-> TRUE]

\* Parking that records the yielded value as the return value too.
SuspendSetsReturn(s, o) ==
  [s EXCEPT !.state = "SUSPENDED_YIELD", !.pc = o.pc, !.idx = o.idx,
            !.delegate = 0, !.lastYieldedValue = o.value, !.returnValue = o.value,
            !.log = s.log \o o.log, !.yielded = Append(s.yielded, o.value)]

\* The instance parks at a suspension point.
Suspend(s, o) ==
  [s EXCEPT !.state = "SUSPENDED_YIELD", !.pc = o.pc, !.idx = o.idx,
            !.delegate = 0, !.lastYieldedValue = o.value,
            !.log = s.log \o o.log, !.yielded = Append(s.yielded, o.value)]

\* The body returned.
Complete(s, o) ==
  [s EXCEPT !.state = "COMPLETED", !.delegate = 0, !.returnValue = o.value,
            !.log = s.log \o o.log]

\* The body raised a failure it does not catch.
Fail(s, o) ==
  [s EXCEPT !.state = "COMPLETED", !.delegate = 0, !.pendingError = o.value[1],
            !.log = s.log \o o.log]

\* A yield* hands the instance over to the inner instance j.
Link(s, o, j) ==
  [s EXCEPT !.state = "SUSPENDED_YIELD", !.pc = o.pc, !.idx = o.idx,
            !.delegate = j, !.log = s.log \o o.log]

\* A value the inner instance yielded is surfaced by the outer one.
Surface(s, val) ==
  [s EXCEPT !.lastYieldedValue = val, !.yielded = Append(s.yielded, val)]

Outcome(I, kind, val) == [insts |-> I, kind |-> kind, value |-> val]

\* The one element of a singleton set: Only({ F(x) : x \in {e} }) is F(e)
\* with e evaluated once.
Only(S) == CHOOSE x \in S : TRUE

RECURSIVE RunBody(_, _, _, _)
RECURSIVE Forward(_, _, _, _)

\* Control enters the body of instance i at the point where it is parked and
\* runs to the next suspension point, a return or an uncaught failure.
RunBody(I, i, mode, v) ==
  Only({ CASE o.kind = "yield" -> Outcome([I EXCEPT ![i] = Suspend(I[i], o)], "yield", o.value)
           [] o.kind = "return" -> Outcome([I EXCEPT ![i] = Complete(I[i], o)], "return", o.value)
           [] o.kind = "throw" -> Outcome([I EXCEPT ![i] = Fail(I[i], o)], "throw", o.value)
           [] OTHER ->
                Forward(Append([I EXCEPT ![i] = Link(I[i], o, Len(I) + 1)],
                               NewInstance(o.ddef, o.darg, i)),
                        i, "next", Undefined)
         : o \in { Body(I[i].def, I[i].arg, I[i].pc, I[i].idx, mode, v) } })

\* A delegation that hands the inner instance's return value to the caller
\* as one more yielded value.
ForwardSurfacesReturn(I, i, mode, v) ==
  Only({ CASE r.kind = "throw" -> RunBody(r.insts, i, "throw", r.value)
           [] r.kind = "yield" ->
                Outcome([r.insts EXCEPT ![i] = Surface(r.insts[i], r.value)], "yield", r.value)
           [] OTHER ->
                Outcome([r.insts EXCEPT ![i] = [Surface(r.insts[i], r.value) EXCEPT !.delegate = 0]],
                        "yield", r.value)
         : r \in { IF I[I[i].delegate].delegate # 0
                   THEN Forward(I, I[i].delegate, mode, v)
                   ELSE RunBody(I, I[i].delegate, mode, v) } })

\* Instance i is delegating: the call goes to the inner instance; what the
\* inner yields is surfaced, and when the inner is done the body of i goes on
\* with the inner's result.
Forward(I, i, mode, v) ==
  Only({ CASE r.kind = "yield" ->
                Outcome([r.insts EXCEPT ![i] = Surface(r.insts[i], r.value)], "yield", r.value)
           [] r.kind = "throw" -> RunBody(r.insts, i, "throw", r.value)
           [] OTHER -> RunBody(r.insts, i, IF mode = "return" THEN "return" ELSE "next", r.value)
         : r \in { IF I[I[i].delegate].delegate # 0
                   THEN Forward(I, I[i].delegate, mode, v)
                   ELSE RunBody(I, I[i].delegate, mode, v) } })

\* ---------------------------------------------------------------- the operations

\* An instance parked at a suspension point is entered there, directly or
\* through the inner instance it delegates to.
Enter(I, i, mode, v) ==
  IF I[i].delegate # 0 THEN Forward(I, i, mode, v) ELSE RunBody(I, i, mode, v)

\* next() handing out the return value again on a finished instance.
resumeRepeatsReturn(I, i, v) ==
  CASE I[i].state = "COMPLETED" -> Outcome(I, "return", I[i].returnValue)
    [] I[i].state = "SUSPENDED_START" -> RunBody(I, i, "next", Undefined)
    [] OTHER -> Enter(I, i, "next", v)

\* next() starting the body again on a finished instance.
resumeRestarts(I, i, v) ==
  CASE I[i].state = "COMPLETED" ->
         RunBody([I EXCEPT ![i] = [I[i] EXCEPT !.pc = 0, !.idx = 0]], i, "next", Undefined)
    [] I[i].state = "SUSPENDED_START" -> RunBody(I, i, "next", Undefined)
    [] OTHER -> Enter(I, i, "next", v)

\* next() raising the failure again on an instance that ended by one.
resumeRethrows(I, i, v) ==
  CASE I[i].state = "COMPLETED" ->
         IF I[i].pendingError # NoError THEN Outcome(I, "throw", <<I[i].pendingError>>)
         ELSE Outcome(I, "return", Undefined)
    [] I[i].state = "SUSPENDED_START" -> RunBody(I, i, "next", Undefined)
    [] OTHER -> Enter(I, i, "next", v)

\* genObj.next(v).  A finished instance reports completion again; the value
\* sent by the first call is dropped, the call only starts the body.
resume(I, i, v) ==
  CASE I[i].state = "COMPLETED" -> Outcome(I, "return", Undefined)
    [] I[i].state = "SUSPENDED_START" -> RunBody(I, i, "next", Undefined)
    [] OTHER -> Enter(I, i, "next", v)

\* throwInto(instance, errorValue): the error is raised at the point where
\* the instance is parked; a fresh or finished instance has no such point
\* and the error goes straight back to the caller.
throwInto(I, i, e) ==
  CASE I[i].state = "COMPLETED" -> Outcome(I, "throw", <<e>>)
    [] I[i].state = "SUSPENDED_START" ->
         Outcome([I EXCEPT ![i] = Fail(I[i], Throw(e, <<>>))], "throw", <<e>>)
    [] OTHER -> Enter(I, i, "throw", <<e>>)

\* close(instance): a completion is raised at the point where the instance
\* is parked.
close(I, i) ==
  CASE I[i].state = "COMPLETED" -> Outcome(I, "return", Undefined)
    [] I[i].state = "SUSPENDED_START" ->
         Outcome([I EXCEPT ![i] = Complete(I[i], Return(Undefined, <<>>))], "return", Undefined)
    [] OTHER -> Enter(I, i, "return", Undefined)

\* Book-keeping of the calls made on an instance (history, not program
\* state): s is the instance before the call, t after it.  resumes counts the
\* resume calls up to and including the one that completed the instance,
\* onlyResume tells that no other operation was ever called on it.
Account(s, t, op) ==
  [t EXCEPT !.resumes = s.resumes + (IF op = "resume" /\ s.state # "COMPLETED" THEN 1 ELSE 0),
            !.onlyResume = s.onlyResume /\ op = "resume"]

\* One call of the caller on instance i, with its book-keeping.
\* A call whose effect lands on every handle of the same definition, as if
\* the cursor belonged to the definition.
CallShared(I, i, op, v) ==
  Only({ [r EXCEPT !.insts = [j \in 1..Len(r.insts) |->
                                IF j = i THEN Account(I[i], r.insts[i], op)
                                ELSE IF r.insts[j].parent = 0 /\ r.insts[j].def = I[i].def
                                     THEN Account(I[j], r.insts[i], op)
                                     ELSE r.insts[j]]]
         : r \in { CASE op = "resume" -> resume(I, i, v)
                     [] op = "throwInto" -> throwInto(I, i, v[1])
                     [] OTHER -> close(I, i) } })

Call(I, i, op, v) ==
  Only({ [r EXCEPT !.insts = [r.insts EXCEPT ![i] = Account(I[i], r.insts[i], op)]]
         : r \in { CASE op = "resume" -> resume(I, i, v)
                     [] op = "throwInto" -> throwInto(I, i, v[1])
                     [] OTHER -> close(I, i) } })

RECURSIVE DrainKeepsReturn(_, _, _)

\* A drain that collects the value that comes with done: true as well.
DrainKeepsReturn(I, i, acc) ==
  Only({ CASE r.kind = "yield" -> DrainKeepsReturn(r.insts, i, Append(acc, r.value))
           [] r.kind = "return" -> Outcome(r.insts, "return", Append(acc, r.value))
           [] OTHER -> r
         : r \in { Call(I, i, "resume", Undefined) } })

RECURSIVE Drain(_, _, _)

\* [...iterator]: next() is called with no argument until done is true; the
\* values that come with done: false are collected, the one that comes with
\* done: true is dropped.  A failure of the body ends the loop.
Drain(I, i, acc) ==
  Only({ CASE r.kind = "yield" -> Drain(r.insts, i, Append(acc, r.value))
           [] r.kind = "return" -> Outcome(r.insts, "return", acc)
           [] OTHER -> r
         : r \in { Call(I, i, "resume", Undefined) } })

\* What the caller of the last operation got: a result {value, done} or a
\* failure.
Result(i, op, input, r) ==
  [inst |-> i, op |-> op, input |-> input,
   value |-> IF r.kind = "throw" THEN Undefined ELSE r.value,
   done |-> r.kind = "return",
   error |-> IF r.kind = "throw" THEN r.value[1] ELSE NoError]

NoResult ==
  [inst |-> 0, op |-> "none", input |-> Undefined, value |-> Undefined,
   done |-> FALSE, error |-> NoError]

\* The instances the caller holds a handle of.
Handles == { i \in 1..Len(insts) : insts[i].parent = 0 }

\* The instances the caller has created.
Created == { i \in 1..Len(insts) : insts[i].parent <= 0 }

Init ==
  /\ insts = <<>>
  /\ last = NoResult
  /\ arr = <<>>

\* function* genFunc() { ... }: the declaration is parsed, before anything
\* of it runs.
Declare ==
  /\ insts = <<>>
  /\ \E def \in Declarations :
       last' = [NoResult EXCEPT !.op = "declare", !.input = <<def>>,
                                !.error = IF Parses(def) THEN NoError ELSE "SyntaxError"]
  /\ UNCHANGED <<insts, arr>>

\* let genObj = genFunc()
Create ==
  /\ Cardinality(Created) < MaxInst
  /\ \E def \in Creatable : \E arg \in Args(def) :
       insts' = Append(insts, NewInstance(def, arg, 0))
  /\ last' = [NoResult EXCEPT !.inst = Len(insts) + 1, !.op = "create"]
  /\ arr' = arr

\* genObj.next(v)
Resume ==
  \E i \in Handles : \E v \in Inputs :
    \E r \in { Call(insts, i, "resume", v) } :
      /\ insts' = r.insts
      /\ last' = Result(i, "resume", v, r)
      /\ arr' = arr

ThrowInto ==
  \E i \in Handles : \E e \in Errors :
    \E r \in { Call(insts, i, "throwInto", <<e>>) } :
      /\ insts' = r.insts
      /\ last' = Result(i, "throwInto", <<e>>, r)
      /\ arr' = arr

Close ==
  \E i \in Handles :
    \E r \in { Call(insts, i, "close", Undefined) } :
      /\ insts' = r.insts
      /\ last' = Result(i, "close", Undefined, r)
      /\ arr' = arr

\* let arr = [...bar()]
Spread ==
  /\ Cardinality(Created) < MaxInst
  /\ \E def \in Creatable : \E arg \in Args(def) :
       LET i == Len(insts) + 1
       IN \E r \in { Drain(Append(insts, NewInstance(def, arg, -1)), i, <<>>) } :
            /\ insts' = r.insts
            /\ last' = [NoResult EXCEPT !.inst = i, !.op = "spread", !.done = r.kind = "return",
                                        !.error = IF r.kind = "throw" THEN r.value[1] ELSE NoError]
            /\ arr' = IF r.kind = "return" THEN r.value ELSE arr

Next == Declare \/ Create \/ Resume \/ ThrowInto \/ Close \/ Spread

Spec == Init /\ [][Next]_vars

\* The definitions of which several instances are run side by side.
PairDefs == { "genFunc", "foo", "bar" }

\* let genObj = genFunc(), again, of the definition the caller already holds
\* instances of.
CreatePair ==
  /\ Cardinality(Handles) < MaxPair
  /\ \E def \in PairDefs : \E arg \in Args(def) :
       /\ \A j \in Handles : insts[j].def = def
       /\ insts' = Append(insts, NewInstance(def, arg, 0))
  /\ last' = [NoResult EXCEPT !.inst = Len(insts) + 1, !.op = "create"]
  /\ arr' = arr

NextPair == CreatePair \/ Resume

SpecPair == Init /\ [][NextPair]_vars

\* ---------------------------------------------------------------- claims

\* The suspension points a body passes through when it runs to its return,
\* counted in the source text (those of a delegated generator included).
SuspensionPoints(def, arg) ==
  CASE def = "genFunc" -> 1
    [] def = "objectEntries" -> IF arg = 1 THEN 2 ELSE 0
    [] def = "coCallback" -> 1
    [] def = "foo" -> 2
    [] def = "bar" -> 4
    [] def = "BinaryTree" -> 5
    [] def = "genFuncLoop" -> 2
    [] def = "dataConsumer" -> 2
    [] OTHER -> 1

\* The value of the return statement of a body (undefined when it has none).
ReturnOf(def) == IF def = "dataConsumer" THEN <<"result">> ELSE Undefined

\* The bodies that run to a normal return when driven by resume alone:
\* objectEntries of a value that is no object raises a TypeError instead.
ReturnsNormally(def, arg) == ~(def = "objectEntries" /\ arg = 3)

\* The step is a resume call on the instance i, which was not completed.
ResumedLive(i) ==
  /\ i \in 1..Len(insts)
  /\ insts[i].parent = 0
  /\ last'.inst = i /\ last'.op = "resume"
  /\ insts'[i].resumes = insts[i].resumes + 1

C1_Step ==
  \A i \in 1..Len(insts) :
    (ResumedLive(i) /\ insts[i].onlyResume /\ ReturnsNormally(insts[i].def, insts[i].arg)) =>
      LET n == SuspensionPoints(insts[i].def, insts[i].arg)
          k == insts'[i].resumes
      IN /\ k <= n + 1
         /\ last'.error = NoError
         /\ k <= n => (~last'.done /\ insts'[i].state = "SUSPENDED_YIELD")
         /\ k = n + 1 => /\ last'.done
                         /\ last'.value = ReturnOf(insts[i].def)
                         /\ insts'[i].state = "COMPLETED"

\* C1: a body with N suspension points that returns normally, driven by
\* resume alone: each of the first N resume calls returns done: false, the
\* (N+1)-th is the first to return done: true and carries the return value
\* (with N = 0 the very first call does).
C1_ResumeCount == [][C1_Step]_vars

\* dataConsumer (N = 2) has been completed by its third resume, which
\* returned {value: 'result', done: true}.
C1_Witness ==
  \E i \in 1..Len(insts) :
    /\ insts[i].def = "dataConsumer" /\ insts[i].parent = 0 /\ insts[i].onlyResume
    /\ insts[i].state = "COMPLETED" /\ insts[i].resumes = 3
    /\ last.inst = i /\ last.op = "resume" /\ last.done /\ last.value = <<"result">>

\* The call history of an instance apart, nothing of it has changed.
SameInstance(s, t) == t = [s EXCEPT !.onlyResume = t.onlyResume]

C2_Step ==
  \A i \in 1..Len(insts) :
    (insts[i].state = "COMPLETED" /\ last'.inst = i /\ last'.op = "resume") =>
      /\ last'.value = Undefined /\ last'.done /\ last'.error = NoError
      /\ Len(insts') = Len(insts)
      /\ \A j \in 1..Len(insts) : SameInstance(insts[j], insts'[j])

\* C2: every resume call on a COMPLETED instance, with any input, returns
\* {value: undefined, done: true}, runs no statement of the body (the log
\* does not grow) and leaves the instance as it is.
C2_ResumeCompleted == [][C2_Step]_vars

\* dataConsumer was completed and then resumed with an input once more: the
\* call that completed it returned 'result', so {undefined, done: true} with
\* input 'a' is the answer of a later call.
C2_Witness ==
  \E i \in 1..Len(insts) :
    /\ insts[i].def = "dataConsumer" /\ insts[i].state = "COMPLETED"
    /\ insts[i].returnValue = <<"result">>
    /\ last.inst = i /\ last.op = "resume" /\ last.input = <<"a">>
    /\ last.value = Undefined /\ last.done

C3_Step ==
  \A i \in 1..Len(insts) :
    (insts[i].state = "SUSPENDED_START" /\ last'.inst = i /\ last'.op = "resume"
       /\ last'.input # Undefined) =>
      /\ last'.error = "TypeError"
      /\ insts'[i].log = <<>>

\* C3: a resume call with an input value on a fresh instance fails with
\* InvalidStateError (the reference's TypeError); the body is not started.
C3_InputOnFresh == [][C3_Step]_vars

\* The instances a yield* of instance o has created.
Inner(o) == { j \in 1..Len(insts) : insts[j].parent = o }

\* The values an inner instance has yielded, as a sequence over all the
\* inner instances of o (bar has at most one).
InnerYielded(o) == IF Inner(o) = {} THEN <<>> ELSE insts[CHOOSE j \in Inner(o) : TRUE].yielded

\* t occurs in s as a run of consecutive elements.
Segment(t, s) ==
  \E k \in 0..(Len(s) - Len(t)) : \A n \in 1..Len(t) : s[k + n] = t[n]

\* C4: draining bar gives exactly ['x', 'a', 'b', 'y']; what the inner
\* instance yields is surfaced by the outer one, in the inner's order, after
\* the outer yields before the delegation and before those after it.
C4_Delegation ==
  /\ \A o \in 1..Len(insts) :
       insts[o].def = "bar" =>
         /\ insts[o].yielded =
              (IF insts[o].pc >= 1 THEN << <<"x">> >> ELSE <<>>)
                \o InnerYielded(o)
                \o (IF insts[o].pc = 3 THEN << <<"y">> >> ELSE <<>>)
         /\ insts[o].pc = 3 => InnerYielded(o) = << <<"a">>, <<"b">> >>
         /\ (last.inst = o /\ last.op = "spread") =>
              /\ last.done
              /\ arr = << <<"x">>, <<"a">>, <<"b">>, <<"y">> >>
         /\ (last.inst = o /\ last.op = "resume" /\ ~last.done) =>
              /\ insts[o].yielded # <<>>
              /\ last.value = insts[o].yielded[Len(insts[o].yielded)]
  /\ \A j \in 1..Len(insts) :
       insts[j].parent > 0 => Segment(insts[j].yielded, insts[insts[j].parent].yielded)

\* bar has been drained into arr.
C4_Witness ==
  /\ last.op = "spread" /\ last.inst \in 1..Len(insts)
  /\ insts[last.inst].def = "bar"
  /\ arr = << <<"x">>, <<"a">>, <<"b">>, <<"y">> >>
  /\ Inner(last.inst) # {}

C5_Step ==
  \A i \in 1..Len(insts) :
    (ResumedLive(i) /\ insts[i].def = "dataConsumer") =>
      LET k == insts'[i].resumes
          sent == Str(last'.input)
      IN /\ last'.error = NoError
         /\ k = 1 => /\ insts'[i].log = << <<"Started">> >>
                     /\ last'.value = Undefined /\ ~last'.done
         /\ k = 2 => /\ insts'[i].log = Append(insts[i].log, <<"1. ", sent>>)
                     /\ last'.value = Undefined /\ ~last'.done
         /\ k = 3 => /\ insts'[i].log = Append(insts[i].log, <<"2. ", sent>>)
                     /\ last'.value = <<"result">> /\ last'.done
         /\ k <= 3

\* C5: dataConsumer resumed with [no argument, 'a', 'b'] answers
\* {undefined, false}, {undefined, false}, {'result', true}; the input of the
\* k-th resume (k >= 2) arrives as the value of the yield the instance was
\* parked at (it is logged as "1. a", "2. b"), and the result of the call
\* carries the operand of the next yield, or the return value.
C5_DataConsumer == [][C5_Step]_vars

\* dataConsumer after next(), next('a'), next('b').
C5_Witness ==
  \E i \in 1..Len(insts) :
    /\ insts[i].def = "dataConsumer"
    /\ insts[i].log = << <<"Started">>, <<"1. ", "a">>, <<"2. ", "b">> >>
    /\ last.inst = i /\ last.op = "resume" /\ last.input = <<"b">>
    /\ last.value = <<"result">> /\ last.done

\* The instance is the co callback parked at the yield inside its try block.
InHandler(s) == s.def = "coCallback" /\ s.state = "SUSPENDED_YIELD" /\ s.pc = 1

\* The catch clause of the co callback has logged the injected error e.
Caught(s, e) ==
  s.def = "coCallback" /\ \E n \in 1..Len(s.log) : s.log[n] = <<"Failure to read: ", e>>

C7_OriginalStep ==
  \A i \in 1..Len(insts) : \A e \in Errors :
    (Caught(insts[i], e) /\ last.inst = i /\ last.op = "throwInto"
       /\ last'.inst = i /\ last'.op = "resume") =>
      (last'.error = NoError /\ ~last'.done)

\* C7 as stated: after an error injected at a suspension point inside a
\* failure handler, the error does not reach the caller and the next resume
\* returns the handler's recovery value with done: false.
C7_Original == [][C7_OriginalStep]_vars

C7_Step ==
  \A i \in 1..Len(insts) :
    /\ (InHandler(insts[i]) /\ last'.inst = i /\ last'.op = "throwInto") =>
         /\ last'.error = NoError
         /\ last'.value = Undefined /\ last'.done
         /\ insts'[i].log = Append(insts[i].log, <<"Failure to read: ", last'.input[1]>>)
         /\ insts'[i].state = "COMPLETED" /\ insts'[i].pendingError = NoError
    /\ \A e \in Errors :
         (Caught(insts[i], e) /\ last'.inst = i /\ last'.op = "resume") =>
           (last'.error = NoError /\ last'.value = Undefined /\ last'.done)

\* C7, amended: an error injected at the suspension point inside the try
\* block of the co callback does not reach the caller; the handler logs it
\* and the body runs to its end, so the injecting call itself returns
\* {value: undefined, done: true}, and so does the next resume.
C7_HandlerRecovers == [][C7_Step]_vars

\* The co callback has caught an injected error and was resumed afterwards.
C7_Witness ==
  \E i \in 1..Len(insts) :
    /\ Caught(insts[i], "Rejected") /\ insts[i].state = "COMPLETED"
    /\ last.inst = i /\ last.op = "resume" /\ last.done

C8_Step ==
  \A i \in 1..Len(insts) :
    (insts[i].state # "COMPLETED" /\ last'.inst = i /\ last'.op \in {"resume", "throwInto"}) =>
      /\ last'.error # NoError =>
           /\ insts'[i].state = "COMPLETED"
           /\ insts'[i].pendingError = last'.error
           /\ last'.op = "throwInto" => last'.error = last'.input[1]
      /\ last'.error = NoError => insts'[i].pendingError = NoError
      /\ (insts[i].def = "objectEntries" /\ insts[i].arg = 3 /\ last'.op = "resume") =>
           last'.error = "TypeError"
      /\ \A j \in 1..Len(insts') :
           /\ insts'[j].state # "RUNNING"
           /\ insts'[j].pendingError # NoError => insts'[j].state = "COMPLETED"

\* C8: a failure the body raises and does not catch during a resume or
\* throwInto call reaches the caller of that call unchanged, and the instance
\* ends in COMPLETED with pendingError set to it; no instance is left in
\* RUNNING, and one that holds a pendingError is COMPLETED.
C8_UncaughtFailure == [][C8_Step]_vars

\* objectEntries of a value that is no object: Reflect.ownKeys raised a
\* TypeError during the first resume.
C8_Witness ==
  \E i \in 1..Len(insts) :
    /\ insts[i].def = "objectEntries" /\ insts[i].arg = 3
    /\ insts[i].state = "COMPLETED" /\ insts[i].pendingError = "TypeError"
    /\ last.inst = i /\ last.op = "resume" /\ last.error = "TypeError"
    /\ insts[i].resumes = 1

C9_Step ==
  /\ Len(insts') >= Len(insts)
  /\ \A i \in 1..Len(insts) :
       /\ insts'[i].def = insts[i].def /\ insts'[i].arg = insts[i].arg
       /\ insts[i].state # "SUSPENDED_START" => insts'[i].state # "SUSPENDED_START"
       /\ insts[i].state = "COMPLETED" => insts'[i].state = "COMPLETED"
  /\ last'.op = "create" =>
       /\ Len(insts') = Len(insts) + 1
       /\ insts'[Len(insts')].state = "SUSPENDED_START"

\* C9: an instance is created in SUSPENDED_START and its state only moves
\* forward: it never comes back to SUSPENDED_START and never leaves
\* COMPLETED, whatever is called on it.
C9_ForwardOnly == [][C9_Step]_vars

\* An error was thrown into an instance that had completed normally before:
\* it is still COMPLETED.
C9_Witness ==
  \E i \in 1..Len(insts) :
    /\ insts[i].state = "COMPLETED" /\ insts[i].pendingError = NoError
    /\ insts[i].def = "foo" /\ insts[i].resumes = 3
    /\ last.inst = i /\ last.op = "throwInto" /\ last.error = "Rejected"

C10_Step ==
  \A i \in 1..Len(insts) :
    /\ (insts[i].state = "SUSPENDED_YIELD" /\ last'.inst = i /\ last'.op = "close") =>
         /\ last'.done /\ last'.error = NoError /\ last'.value = Undefined
         /\ insts'[i].state = "COMPLETED" /\ insts'[i].delegate = 0
         /\ insts'[i].yielded = insts[i].yielded
         /\ insts'[i].pc = insts[i].pc
         /\ insts'[i].log = insts[i].log
         /\ \A j \in 1..Len(insts) : insts[j].parent = i => insts'[j].state = "COMPLETED"
         /\ Len(insts') = Len(insts)
    /\ (insts[i].state = "COMPLETED" /\ last'.inst = i /\ last'.op = "resume") =>
         (last'.done /\ insts'[i].yielded = insts[i].yielded)

\* C10: close on a suspended instance completes it at the point where it is
\* parked: the instance (and the inner one it delegates to) goes straight to
\* COMPLETED, no further suspension point is reached and no later statement
\* of the body runs (no body of the file registers cleanup for a yield);
\* afterwards resume reports done: true.
C10_Close == [][C10_Step]_vars

\* bar was closed while it delegated to foo, after 'x' and 'a'.
C10_Witness ==
  \E i \in 1..Len(insts) :
    /\ insts[i].def = "bar" /\ insts[i].state = "COMPLETED"
    /\ insts[i].yielded = << <<"x">>, <<"a">> >>
    /\ last.inst = i /\ last.op = "close" /\ last.done
    /\ \E j \in Inner(i) : insts[j].state = "COMPLETED"

C11_Step ==
  /\ last'.op = "create" =>
       /\ Len(insts') = Len(insts) + 1
       /\ \A j \in 1..Len(insts) : insts'[j] = insts[j]
       /\ arr' = arr
       /\ last'.inst = Len(insts') /\ last'.error = NoError
       /\ LET s == insts'[Len(insts')]
          IN /\ s.state = "SUSPENDED_START" /\ s.pc = 0 /\ s.idx = 0 /\ s.delegate = 0
             /\ s.log = <<>> /\ s.yielded = <<>>
             /\ s.lastYieldedValue = Absent /\ s.returnValue = Absent
             /\ s.pendingError = NoError
  /\ \A i \in 1..Len(insts) :
       (insts[i].def = "genFunc" /\ last'.inst = i /\ last'.op = "resume") =>
         /\ insts[i].state = "SUSPENDED_START" =>
              (insts[i].log = <<>> /\ insts'[i].log = << <<"First">> >>)
  /\ \A i \in 1..Len(insts') :
       (insts'[i].def = "genFunc" /\ insts'[i].log # <<>>) => insts'[i].resumes >= 1

\* C11: create runs no statement of the body and touches nothing else: the
\* new instance is in SUSPENDED_START with an empty log, and genFunc logs
\* 'First' during its first resume, not before.
C11_CreateIsInert == [][C11_Step]_vars

\* genFunc has just been created: nothing is logged.
C11_Witness ==
  \E i \in 1..Len(insts) :
    /\ insts[i].def = "genFunc" /\ insts[i].state = "SUSPENDED_START"
    /\ insts[i].log = <<>>
    /\ last.inst = i /\ last.op = "create"

\* s is an initial part of t.
Prefix(s, t) == Len(s) <= Len(t) /\ \A n \in 1..Len(s) : s[n] = t[n]

\* C12 as stated: the definition with a yield inside a forEach callback can
\* be declared, and the failure comes at the suspension attempt, that is
\* during a resume.
C12_Original ==
  /\ last.op = "declare" => last.error = NoError
  /\ last.error = "SyntaxError" => last.op = "resume"

\* C12, amended: the definition with a yield inside a forEach callback is
\* rejected with a SyntaxError when it is declared; no instance of it ever
\* exists, so it neither suspends nor silently does nothing.  The same
\* yields written in a loop directly in the body suspend normally.
C12_CallbackYield ==
  /\ last.op = "declare" =>
       (last.error = (IF last.input = <<"genFuncCallback">> THEN "SyntaxError" ELSE NoError))
  /\ last.error = "SyntaxError" => (last.op = "declare" /\ last.inst = 0)
  /\ \A i \in 1..Len(insts) :
       /\ insts[i].def # "genFuncCallback"
       /\ insts[i].def = "genFuncLoop" =>
            /\ Prefix(insts[i].yielded, << <<"a">>, <<"b">> >>)
            /\ (insts[i].onlyResume /\ insts[i].resumes \in {1, 2}) =>
                 (insts[i].state = "SUSPENDED_YIELD" /\ Len(insts[i].yielded) = insts[i].resumes)

\* The declaration with the yield inside the callback has been rejected.
C12_Witness ==
  /\ last.op = "declare" /\ last.input = <<"genFuncCallback">>
  /\ last.error = "SyntaxError"
  /\ insts = <<>>

C13_Step ==
  \A o \in 1..Len(insts) :
    LET j == insts[o].delegate
    IN (j # 0 /\ insts[o].parent = 0 /\ last'.inst = o /\ last'.op \in {"resume", "throwInto"}) =>
         /\ insts'[j] # insts[j]
         /\ insts'[j].state = "SUSPENDED_YIELD" =>
              /\ insts'[o].state = "SUSPENDED_YIELD" /\ insts'[o].delegate = j
              /\ insts'[o].pc = insts[o].pc /\ insts'[o].log = insts[o].log
              /\ last'.error = NoError /\ ~last'.done
              /\ last'.value = insts'[j].lastYieldedValue
              /\ insts'[o].yielded = Append(insts[o].yielded, last'.value)
         /\ insts'[j].state # "SUSPENDED_YIELD" =>
              /\ insts'[j].state = "COMPLETED" /\ insts'[o].delegate # j
              /\ last'.op = "throwInto" =>
                   /\ insts'[j].pendingError = last'.input[1]
                   /\ insts'[o].state = "COMPLETED" /\ last'.error = last'.input[1]
              /\ last'.op = "resume" =>
                   /\ insts'[j].returnValue = Undefined /\ last'.error = NoError
                   /\ ~last'.done =>
                        /\ insts'[o].yielded = Append(insts[o].yielded, last'.value)
                        /\ insts'[o].delegate = 0 => insts'[o].pc > insts[o].pc
                   /\ last'.done =>
                        (insts'[o].state = "COMPLETED" /\ insts'[o].yielded = insts[o].yielded)
                   /\ insts[o].def = "bar" =>
                        (last'.value = <<"y">> /\ ~last'.done /\ insts'[o].pc = 3)
                   /\ insts[o].def = "BinaryTree" =>
                        (~last'.done => last'.value \in { <<"d">>, <<"e">> })

\* C13: while an outer instance delegates, a resume or throwInto on it goes
\* to the inner instance and no code of the outer body runs as long as the
\* inner yields; when the inner is done the outer goes on within the same
\* call, and the inner's return value is not handed to the caller as a
\* yielded value: the call returns the outer's next yield or its completion.
C13_DelegationForwards == [][C13_Step]_vars

\* The resume that finished foo made bar go on to yield 'y' in the same call.
C13_Witness ==
  \E o \in 1..Len(insts) : \E j \in Inner(o) :
    /\ insts[o].def = "bar" /\ insts[o].parent = 0 /\ insts[o].pc = 3
    /\ insts[o].state = "SUSPENDED_YIELD"
    /\ insts[j].state = "COMPLETED" /\ insts[j].returnValue = Undefined
    /\ last.inst = o /\ last.op = "resume" /\ last.value = <<"y">> /\ ~last.done

\* The values a body yields when it is run to its end, in the order of the
\* source text (for the tree, the output listed in the file: a b c d e).
ExpectedYields(def, arg) ==
  CASE def = "genFunc" -> << Undefined >>
    [] def = "objectEntries" ->
         IF arg = 1 THEN << <<"first", "Jane">>, <<"last", "Doe">> >> ELSE <<>>
    [] def = "coCallback" -> << <<"Promise">> >>
    [] def = "foo" -> << <<"a">>, <<"b">> >>
    [] def = "bar" -> << <<"x">>, <<"a">>, <<"b">>, <<"y">> >>
    [] def = "BinaryTree" ->
         << << <<"a">>, <<"b">>, <<"c">>, <<"d">>, <<"e">> >>,
            << <<"b">>, <<"c">>, <<"d">> >>,
            << <<"c">> >>, << <<"d">> >>, << <<"e">> >> >>[arg]
    [] def = "genFuncLoop" -> << <<"a">>, <<"b">> >>
    [] def = "dataConsumer" -> << Undefined, Undefined >>
    [] OTHER -> << Undefined >>

\* The cursor <<pc, idx>> of t lies after that of s.
CursorAfter(s, t) == t.pc > s.pc \/ (t.pc = s.pc /\ t.idx > s.idx)

C14_Step ==
  /\ \A i \in 1..Len(insts') :
       Prefix(insts'[i].yielded, ExpectedYields(insts'[i].def, insts'[i].arg))
  /\ \A i \in 1..Len(insts) :
       (ResumedLive(i) /\ last'.error = NoError) =>
         /\ ~last'.done =>
              /\ insts'[i].yielded = Append(insts[i].yielded, last'.value)
              /\ insts'[i].delegate = 0 => CursorAfter(insts[i], insts'[i])
              /\ insts'[i].delegate # 0 => insts'[i].pc >= insts[i].pc
         /\ last'.done =>
              /\ insts'[i].yielded = insts[i].yielded
              /\ insts[i].yielded = ExpectedYields(insts[i].def, insts[i].arg)

\* C14: the suspension points of an instance are reached in program order
\* with one cursor: what an instance has yielded is always an initial part
\* of the sequence its body yields, each resume that suspends adds exactly
\* the next value and moves the cursor forward, and a resume completes the
\* instance only after every suspension point has been passed.
C14_ProgramOrder == [][C14_Step]_vars

\* genFunc is parked at (A) after its first resume: 'First' is logged,
\* 'Second' is not.
C14_Witness ==
  \E i \in 1..Len(insts) :
    /\ insts[i].def = "genFunc" /\ insts[i].state = "SUSPENDED_YIELD" /\ insts[i].pc = 1
    /\ insts[i].log = << <<"First">> >> /\ insts[i].yielded = << Undefined >>
    /\ last.inst = i /\ last.op = "resume" /\ ~last.done

\* C15: an instance has a returnValue only when it is COMPLETED and a
\* pendingError only when its body ended by a thrown failure (never both);
\* an instance in SUSPENDED_START, SUSPENDED_YIELD or RUNNING has neither.
C15_ResultFields ==
  \A i \in 1..Len(insts) :
    /\ insts[i].state \in States
    /\ insts[i].state # "COMPLETED" =>
         (insts[i].returnValue = Absent /\ insts[i].pendingError = NoError)
    /\ insts[i].state = "COMPLETED" =>
         (insts[i].returnValue = Absent) # (insts[i].pendingError = NoError)
    /\ (insts[i].pendingError # NoError /\ insts[i].parent <= 0 /\ insts[i].onlyResume) =>
         (insts[i].def = "objectEntries" /\ insts[i].arg = 3 /\ insts[i].pendingError = "TypeError")
    /\ (insts[i].state = "COMPLETED" /\ insts[i].parent <= 0 /\ insts[i].onlyResume) =>
         IF insts[i].def = "objectEntries" /\ insts[i].arg = 3
         THEN insts[i].pendingError = "TypeError"
         ELSE insts[i].returnValue = ReturnOf(insts[i].def)

\* dataConsumer, parked at its second yield, had an error thrown into it: it
\* is COMPLETED with that pendingError and no returnValue.
C15_Witness ==
  \E i \in 1..Len(insts) :
    /\ insts[i].def = "dataConsumer" /\ insts[i].state = "COMPLETED"
    /\ insts[i].pendingError = "Rejected" /\ insts[i].returnValue = Absent
    /\ Len(insts[i].yielded) = 2

RECURSIVE Owner(_, _)

\* The handle an instance works for: itself, or the handle that delegates
\* (directly or not) to it.
Owner(I, j) == IF I[j].parent > 0 THEN Owner(I, I[j].parent) ELSE j

C16_Step ==
  \A i \in Handles :
    (last'.inst = i /\ last'.op = "resume") =>
      /\ \A j \in 1..Len(insts) : Owner(insts, j) # i => insts'[j] = insts[j]
      /\ \A j \in Len(insts) + 1..Len(insts') : Owner(insts', j) = i
      /\ \A h \in Handles :
           LET exp == ExpectedYields(insts'[h].def, insts'[h].arg)
           IN /\ Prefix(insts'[h].yielded, exp)
              /\ Len(insts'[h].yielded) =
                   (IF insts'[h].resumes <= Len(exp) THEN insts'[h].resumes ELSE Len(exp))
              /\ insts'[h].state = "COMPLETED" <=> insts'[h].resumes = Len(exp) + 1

RECURSIVE PrefixOrder(_)

\* The prefix order of the subtree at node n (0: no node): the node's value,
\* then the left subtree, then the right subtree.
PrefixOrder(n) ==
  IF n = 0 THEN <<>>
  ELSE << <<NodeValue(n)>> >> \o PrefixOrder(NodeLeft(n)) \o PrefixOrder(NodeRight(n))

\* C17: iterating the tree a(b(c, d), e) yields a, b, c, d, e, the prefix
\* order: each node once, the node before its subtrees, left before right,
\* an absent child contributing nothing.
C17_PrefixOrder ==
  /\ PrefixOrder(1) = << <<"a">>, <<"b">>, <<"c">>, <<"d">>, <<"e">> >>
  /\ \A i \in 1..Len(insts) :
       insts[i].def = "BinaryTree" =>
         /\ Prefix(insts[i].yielded, PrefixOrder(insts[i].arg))
         /\ \A k, l \in 1..Len(insts[i].yielded) :
              insts[i].yielded[k] = insts[i].yielded[l] => k = l
         /\ (insts[i].state = "COMPLETED" /\ insts[i].onlyResume /\ insts[i].parent <= 0) =>
              insts[i].yielded = PrefixOrder(insts[i].arg)
         /\ (last.op = "spread" /\ last.inst = i) => arr = PrefixOrder(insts[i].arg)
         /\ \A j \in 1..Len(insts) :
              insts[j].parent = i => insts[j].arg \in {NodeLeft(insts[i].arg), NodeRight(insts[i].arg)} \ {0}

\* The tree has been iterated to its end: five values in prefix order, one
\* instance per node.
C17_Witness ==
  /\ last.op = "spread" /\ insts[last.inst].def = "BinaryTree"
  /\ arr = << <<"a">>, <<"b">>, <<"c">>, <<"d">>, <<"e">> >>
  /\ Len(insts) = 5

\* C18: draining an instance to exhaustion ends with the instance COMPLETED
\* and gives exactly the values yielded with done: false, in yield order;
\* the final return value of the instance and those of the instances it
\* delegated to are not among them.
C18_Drain ==
  last.op = "spread" =>
    LET s == insts[last.inst]
    IN /\ s.state = "COMPLETED" /\ s.parent = -1
       /\ \A j \in 1..Len(insts) :
            Owner(insts, j) = last.inst => insts[j].state = "COMPLETED"
       /\ last.done <=> last.error = NoError
       /\ last.done <=> ReturnsNormally(s.def, s.arg)
       /\ last.done =>
            /\ arr = s.yielded
            /\ arr = ExpectedYields(s.def, s.arg)
            /\ Len(arr) = SuspensionPoints(s.def, s.arg)
            /\ s.returnValue = ReturnOf(s.def)
            /\ ReturnOf(s.def) # Undefined => \A k \in 1..Len(arr) : arr[k] # ReturnOf(s.def)
       /\ ~last.done => (s.pendingError = last.error /\ s.yielded = <<>>)

\* [...bar()] has been evaluated: the array is 'x', 'a', 'b', 'y', and bar
\* and the foo it delegated to are both completed.
C18_Witness ==
  /\ last.op = "spread" /\ last.done
  /\ insts[last.inst].def = "bar"
  /\ arr = << <<"x">>, <<"a">>, <<"b">>, <<"y">> >>
  /\ Len(insts) = 2 /\ insts[2].def = "foo" /\ insts[2].state = "COMPLETED"

C19_Step ==
  \A i \in Handles :
    /\ (insts[i].pendingError = NoError /\ insts'[i].pendingError # NoError) =>
         (last'.inst = i /\ last'.error = insts'[i].pendingError /\ ~last'.done)
    /\ (insts[i].pendingError # NoError /\ last'.inst = i /\ last'.op = "resume") =>
         /\ last'.error = NoError /\ last'.value = Undefined /\ last'.done
         /\ insts'[i].state = "COMPLETED"
         /\ insts'[i].pendingError = insts[i].pendingError
         /\ insts'[i].log = insts[i].log /\ insts'[i].yielded = insts[i].yielded

\* C19: a failure that ends the body is raised to the caller of the call in
\* which it happens and only there: a later resume of the instance raises
\* nothing and returns {value: undefined, done: true}.
C19_FailureRaisedOnce == [][C19_Step]_vars

\* objectEntries of a value that is no object failed with TypeError on its
\* first resume; it was resumed again and that call returned done: true
\* without an error.
C19_Witness ==
  \E i \in Handles :
    /\ insts[i].def = "objectEntries" /\ insts[i].arg = 3
    /\ insts[i].pendingError = "TypeError" /\ insts[i].onlyResume
    /\ last.inst = i /\ last.op = "resume"
    /\ last.error = NoError /\ last.done /\ last.value = Undefined

C20_Step ==
  \A i \in Handles :
    (insts[i].def = "objectEntries" /\ IsObject(insts[i].arg) /\ ResumedLive(i)) =>
      LET obj == insts[i].arg
          propKeys == OwnKeys(obj)
          k == insts'[i].resumes
      IN /\ last'.error = NoError
         /\ k <= Len(propKeys) + 1
         /\ k <= Len(propKeys) =>
              /\ ~last'.done
              /\ last'.value = <<propKeys[k], Get(obj, propKeys[k])>>
              /\ insts'[i].state = "SUSPENDED_YIELD"
              /\ Len(insts'[i].yielded) = k
         /\ k = Len(propKeys) + 1 =>
              /\ last'.done /\ last'.value = Undefined
              /\ insts'[i].state = "COMPLETED"
              /\ Len(insts'[i].yielded) = Len(propKeys)

\* C20: the k-th resume of objectEntries(obj) yields the pair of the k-th
\* own key of obj and its value, for every key in the order of the key list;
\* the resume after the last key completes the instance, which for an object
\* without own keys is the first resume.
C20_ObjectEntries == [][C20_Step]_vars

\* objectEntries(jane) has been resumed three times: ['first', 'Jane'], then
\* ['last', 'Doe'], then done.
C20_Witness ==
  \E i \in Handles :
    /\ insts[i].def = "objectEntries" /\ insts[i].arg = 1
    /\ insts[i].resumes = 3 /\ insts[i].state = "COMPLETED"
    /\ insts[i].yielded = << <<"first", "Jane">>, <<"last", "Doe">> >>
    /\ last.inst = i /\ last.op = "resume" /\ last.done /\ last.input = Undefined

====
